---- MODULE Spec2Model ----
(***************************************************************************)
(* Model of neothesia's OutputManager (src/neothesia/src/output_manager/   *)
(* mod.rs, built with the "synth" feature): the two optional backends, the *)
(* single (descriptor, connection) slot, and the four public operations    *)
(* outputs / connect / midi_event / stop_all.                              *)
(*                                                                         *)
(* Every operation records in lastCall the route it found, the ordered     *)
(* calls it made on its collaborators (backends, connections, the resource *)
(* lookup) and what it returned, so that ordering and frame properties of  *)
(* a single call can be stated as state predicates.                        *)
(***************************************************************************)
EXTENDS Integers, Sequences, FiniteSets, TLC

\* ---- bounds of the model ------------------------------------------------
MaxSinks == 4            \* connections opened over a run, the initial one included
MaxTracks == 2           \* tracks of a loaded song

\* ---- the environment ----------------------------------------------------
PortList == <<"p1", "p2">>              \* device ports, in device order
Ports == {PortList[i] : i \in 1..Len(PortList)}
PortStates == {"absent", "free", "busy"}
NoFont == "None"                         \* Option<PathBuf>::None
Fonts == {"f1"}                          \* explicit sound-font paths
Sf2States == {"unresolved", "missing", "exists"}
Channels == {0, 15}                      \* u4
Messages == {"NoteOn", "NoteOff"}
NoSink == -1

\* ---- OutputDescriptor ---------------------------------------------------
DummyOutput == [kind |-> "DummyOutput", arg |-> "-"]
Synth(font) == [kind |-> "Synth", arg |-> font]
MidiOut(info) == [kind |-> "MidiOut", arg |-> info]
OutputDescriptor ==
    {Synth(f) : f \in {NoFont} \cup Fonts} \cup {MidiOut(p) : p \in Ports} \cup {DummyOutput}

VARIABLES
    synth_backend,       \* Option<SynthBackend>: TRUE iff Some
    midi_backend,        \* Option<MidiBackend>: TRUE iff Some
    output_connection,   \* [desc, sink]: the (OutputDescriptor, Box<dyn OutputConnection>) pair
    nextId,              \* identity given to the next connection object
    live,                \* identities of the connection objects not yet dropped
    dirty,               \* the active connection got a midi_event since its last stop_all
    ports,               \* environment: state of each device port
    sf2,                 \* environment: state of the default sound font
    lastCall,            \* the last public operation: what it found, called and returned
    song,                \* tracks page: ctx.song, Option<Song> reduced to song.config.tracks
    on_back,             \* tracks page: on_back callback is Some
    on_play,             \* tracks page: on_play callback is Some
    trackCall            \* tracks page: the last event handled by update, and its return

managerVars == <<synth_backend, midi_backend, output_connection, nextId, live, dirty,
                 ports, sf2, lastCall>>
tracksVars == <<song, on_back, on_play, trackCall>>
vars == <<managerVars, tracksVars>>

\* ---- tracks page data (iced_menu/tracks.rs) ------------------------------
PlayerConfig == {"Mute", "Auto", "Human"}
TrackConfig == [player : PlayerConfig, visible : BOOLEAN]
NoSongLoaded == [some |-> FALSE, tracks |-> <<>>]
Songs == {[some |-> TRUE, tracks |-> t] :
              t \in UNION {[1..n -> TrackConfig] : n \in 0..MaxTracks}}
Event(type, track, config, visible) ==
    [type |-> type, track |-> track, config |-> config, visible |-> visible]
NoEvent == [event |-> Event("-", 0, "Mute", FALSE), before |-> NoSongLoaded, ret |-> "None"]

Call(c, o, s, k, d) == [call |-> c, on |-> o, sink |-> s, ok |-> k, dirty |-> d]
Record(op, desc, calls, result) ==
    [op |-> op, desc |-> desc, before |-> output_connection, sf2 |-> "-",
     calls |-> calls, result |-> result, ret |-> "unit"]

\* ---- OutputManager::new -------------------------------------------------
new ==
    /\ synth_backend \in BOOLEAN
    /\ midi_backend \in BOOLEAN
    /\ output_connection = [desc |-> DummyOutput,
                            sink |-> [id |-> 0, kind |-> "DummyOutput", arg |-> "-"]]
    /\ nextId = 1
    /\ live = {0}
    /\ dirty = FALSE
    /\ lastCall = [op |-> "new", desc |-> DummyOutput,
                   before |-> [desc |-> DummyOutput,
                               sink |-> [id |-> 0, kind |-> "DummyOutput", arg |-> "-"]],
                   sf2 |-> "-", calls |-> <<>>, result |-> <<>>, ret |-> "unit"]

Init ==
    /\ new
    /\ ports \in [Ports -> PortStates]
    /\ sf2 \in Sf2States
    /\ song = NoSongLoaded
    /\ on_back = FALSE
    /\ on_play = FALSE
    /\ trackCall = NoEvent

\* ---- the backends (their code is outside src/) --------------------------
synth_get_outputs == <<Synth(NoFont)>>
midi_get_outputs ==
    LET listed == SelectSeq(PortList, LAMBDA p : ports[p] # "absent")
    IN  [i \in 1..Len(listed) |-> MidiOut(listed[i])]
\* MidiBackend::new_output_connection(info): Some iff the port can be opened now
midi_new_output_connection(info) == ports[info] = "free"

\* ---- OutputManager::outputs ---------------------------------------------
outputsDummyFirst ==
    <<DummyOutput>>
        \o (IF synth_backend THEN synth_get_outputs ELSE <<>>)
        \o (IF midi_backend THEN midi_get_outputs ELSE <<>>)

outputsMidiFirst ==
    (IF midi_backend THEN midi_get_outputs ELSE <<>>)
        \o (IF synth_backend THEN synth_get_outputs ELSE <<>>)
        \o <<DummyOutput>>

outputs ==
    (IF synth_backend THEN synth_get_outputs ELSE <<>>)
        \o (IF midi_backend THEN midi_get_outputs ELSE <<>>)
        \o <<DummyOutput>>

OutputsRetry ==
    /\ midi_backend' = TRUE
    /\ lastCall' = Record("outputs", DummyOutput,
                          (IF synth_backend
                           THEN <<Call("get_outputs", "synth", NoSink, TRUE, FALSE)>> ELSE <<>>)
                          \o <<Call("get_outputs", "midi", NoSink, TRUE, FALSE)>>,
                          outputs)
    /\ UNCHANGED <<tracksVars, synth_backend, output_connection, nextId, live, dirty, ports, sf2>>

Outputs ==
    /\ lastCall' = Record("outputs", DummyOutput,
                          (IF synth_backend
                           THEN <<Call("get_outputs", "synth", NoSink, TRUE, FALSE)>> ELSE <<>>)
                          \o (IF midi_backend
                              THEN <<Call("get_outputs", "midi", NoSink, TRUE, FALSE)>> ELSE <<>>),
                          outputs)
    /\ UNCHANGED <<tracksVars, synth_backend, midi_backend, output_connection, nextId, live, dirty,
                   ports, sf2>>

\* ---- OutputManager::connect ---------------------------------------------
\* `self.output_connection = (desc, Box::new(..))`: the right-hand side has been
\* evaluated (calls), then the old pair is dropped and the new one stored.
InstallLeak(desc, kind, arg, calls, snap) ==
    /\ nextId < MaxSinks
    /\ output_connection' = [desc |-> desc, sink |-> [id |-> nextId, kind |-> kind, arg |-> arg]]
    /\ nextId' = nextId + 1
    /\ live' = live \cup {nextId}
    /\ dirty' = FALSE
    /\ lastCall' = [Record("connect", desc, calls, <<>>) EXCEPT !.sf2 = snap]

InstallKeepsDesc(desc, kind, arg, calls, snap) ==
    /\ nextId < MaxSinks
    /\ output_connection' = [desc |-> output_connection.desc,
                             sink |-> [id |-> nextId, kind |-> kind, arg |-> arg]]
    /\ nextId' = nextId + 1
    /\ live' = (live \ {output_connection.sink.id}) \cup {nextId}
    /\ dirty' = FALSE
    /\ lastCall' = [Record("connect", desc,
                           calls \o <<Call("drop", "sink", output_connection.sink.id, TRUE, dirty)>>,
                           <<>>) EXCEPT !.sf2 = snap]

Install(desc, kind, arg, calls, snap) ==
    /\ nextId < MaxSinks
    /\ output_connection' = [desc |-> desc, sink |-> [id |-> nextId, kind |-> kind, arg |-> arg]]
    /\ nextId' = nextId + 1
    /\ live' = (live \ {output_connection.sink.id}) \cup {nextId}
    /\ dirty' = FALSE
    /\ lastCall' = [Record("connect", desc,
                           calls \o <<Call("drop", "sink", output_connection.sink.id, TRUE, dirty)>>,
                           <<>>) EXCEPT !.sf2 = snap]

\* no assignment to self.output_connection on this path
Keep(desc, calls, snap) ==
    /\ lastCall' = [Record("connect", desc, calls, <<>>) EXCEPT !.sf2 = snap]
    /\ UNCHANGED <<output_connection, nextId, live, dirty>>

Opened(prov) == Call("new_output_connection", prov, nextId, TRUE, FALSE)
NotOpened(prov) == Call("new_output_connection", prov, NoSink, FALSE, FALSE)
Resolved == Call("default_sf2", "resources", NoSink, sf2 # "unresolved", FALSE)
Exists == Call("exists", "path", NoSink, sf2 = "exists", FALSE)

SynthArmNoExistsCheck(desc) ==
    IF synth_backend
    THEN IF desc.arg # NoFont
         THEN Install(desc, "Synth", desc.arg, <<Opened("synth")>>, sf2)
         ELSE IF sf2 # "unresolved"
              THEN Install(desc, "Synth", "default", <<Resolved, Opened("synth")>>, sf2)
              ELSE Keep(desc, <<Resolved>>, sf2)
    ELSE Keep(desc, <<>>, sf2)

SynthArmFallbackDummy(desc) ==
    IF synth_backend
    THEN IF desc.arg # NoFont
         THEN Install(desc, "Synth", desc.arg, <<Opened("synth")>>, sf2)
         ELSE IF sf2 = "exists"
              THEN Install(desc, "Synth", "default", <<Resolved, Exists, Opened("synth")>>, sf2)
              ELSE /\ nextId < MaxSinks
                   /\ output_connection' =
                          [desc |-> DummyOutput,
                           sink |-> [id |-> nextId, kind |-> "DummyOutput", arg |-> "-"]]
                   /\ nextId' = nextId + 1
                   /\ live' = (live \ {output_connection.sink.id}) \cup {nextId}
                   /\ dirty' = FALSE
                   /\ lastCall' = [Record("connect", desc, <<Resolved>>, <<>>) EXCEPT !.sf2 = sf2]
    ELSE Keep(desc, <<>>, sf2)

SynthArmChecksFont(desc) ==
    IF synth_backend
    THEN IF sf2 = "exists"
         THEN Install(desc, "Synth", IF desc.arg = NoFont THEN "default" ELSE desc.arg,
                      <<Resolved, Exists, Opened("synth")>>, sf2)
         ELSE Keep(desc, <<Resolved, Exists>>, sf2)
    ELSE Keep(desc, <<>>, sf2)

SynthArm(desc) ==
    IF synth_backend
    THEN IF desc.arg # NoFont
         THEN Install(desc, "Synth", desc.arg, <<Opened("synth")>>, sf2)
         ELSE IF sf2 # "unresolved"
              THEN IF sf2 = "exists"
                   THEN Install(desc, "Synth", "default",
                                <<Resolved, Exists, Opened("synth")>>, sf2)
                   ELSE Keep(desc, <<Resolved, Exists>>, sf2)
              ELSE Keep(desc, <<Resolved>>, sf2)
    ELSE Keep(desc, <<>>, sf2)

MidiOutArmFallback(desc) ==
    IF midi_new_output_connection(desc.arg)
    THEN Install(desc, "MidiOut", desc.arg, <<Opened("midi")>>, "-")
    ELSE /\ nextId < MaxSinks
         /\ output_connection' = [desc |-> DummyOutput,
                                  sink |-> [id |-> nextId, kind |-> "DummyOutput", arg |-> "-"]]
         /\ nextId' = nextId + 1
         /\ live' = (live \ {output_connection.sink.id}) \cup {nextId}
         /\ dirty' = FALSE
         /\ lastCall' = Record("connect", desc, <<NotOpened("midi")>>, <<>>)

MidiOutArm(desc) ==
    IF midi_new_output_connection(desc.arg)
    THEN Install(desc, "MidiOut", desc.arg, <<Opened("midi")>>, "-")
    ELSE Keep(desc, <<NotOpened("midi")>>, "-")

DummyArmNeedsProvider(desc) ==
    IF midi_backend THEN Install(desc, "DummyOutput", "-", <<>>, "-") ELSE Keep(desc, <<>>, "-")

DummyArm(desc) == Install(desc, "DummyOutput", "-", <<>>, "-")

NeedsConnectAlways(desc) == TRUE

NeedsConnectKindOnly(desc) == desc.kind # output_connection.desc.kind

NeedsConnect(desc) == desc # output_connection.desc

connect(desc) ==
    /\ IF NeedsConnect(desc)
       THEN CASE desc.kind = "Synth" -> SynthArm(desc)
              [] desc.kind = "MidiOut" -> MidiOutArm(desc)
              [] desc.kind = "DummyOutput" -> DummyArm(desc)
       ELSE Keep(desc, <<>>, IF desc.kind = "Synth" THEN sf2 ELSE "-")
    /\ UNCHANGED <<tracksVars, synth_backend, midi_backend, ports, sf2>>

Connect == \E desc \in OutputDescriptor : connect(desc)

\* ---- OutputManager::midi_event / stop_all -------------------------------
midi_eventResets(channel, msg) ==
    /\ output_connection' = [desc |-> DummyOutput,
                             sink |-> [id |-> output_connection.sink.id,
                                       kind |-> "DummyOutput", arg |-> "-"]]
    /\ dirty' = TRUE
    /\ lastCall' = Record("midi_event", DummyOutput,
                          <<Call("midi_event", "sink", output_connection.sink.id, TRUE, FALSE)>>,
                          <<channel, msg>>)
    /\ UNCHANGED <<tracksVars, synth_backend, midi_backend, nextId, live, ports, sf2>>

midi_event(channel, msg) ==
    /\ dirty' = TRUE
    /\ lastCall' = Record("midi_event", DummyOutput,
                          <<Call("midi_event", "sink", output_connection.sink.id, TRUE, FALSE)>>,
                          <<channel, msg>>)
    /\ UNCHANGED <<tracksVars, synth_backend, midi_backend, output_connection, nextId, live, ports, sf2>>

MidiEvent == \E channel \in Channels, msg \in Messages : midi_event(channel, msg)

stop_allStale ==
    /\ dirty' = FALSE
    /\ lastCall' = Record("stop_all", DummyOutput,
                          <<Call("stop_all", "sink", 0, TRUE, FALSE)>>, <<>>)
    /\ UNCHANGED <<tracksVars, synth_backend, midi_backend, output_connection, nextId, live, ports, sf2>>

stop_all ==
    /\ dirty' = FALSE
    /\ lastCall' = Record("stop_all", DummyOutput,
                          <<Call("stop_all", "sink", output_connection.sink.id, TRUE, FALSE)>>,
                          <<>>)
    /\ UNCHANGED <<tracksVars, synth_backend, midi_backend, output_connection, nextId, live, ports, sf2>>

\* ---- the environment moves ----------------------------------------------
PortsChange ==
    /\ \E p \in Ports, s \in PortStates : s # ports[p] /\ ports' = [ports EXCEPT ![p] = s]
    /\ UNCHANGED <<tracksVars, synth_backend, midi_backend, output_connection, nextId, live, dirty,
                   sf2, lastCall>>

Sf2Change ==
    /\ \E s \in Sf2States : s # sf2 /\ sf2' = s
    /\ UNCHANGED <<tracksVars, synth_backend, midi_backend, output_connection, nextId, live, dirty,
                   ports, lastCall>>

Next == Outputs \/ Connect \/ MidiEvent \/ stop_all \/ PortsChange \/ Sf2Change

Spec == Init /\ [][Next]_vars

\* ---- TracksPage::update (iced_menu/tracks.rs) ----------------------------
\* `song.config.tracks[track]` is 0-based; the sequence here is 1-based.
\* The view emits TrackPlayer/TrackVisibility only with the track_id of a
\* track of the loaded song, so the index is drawn from the song's tracks.
TrackIds == IF song.some THEN 0..(Len(song.tracks) - 1) ELSE 0..(MaxTracks - 1)

Handled(event, ret) ==
    /\ trackCall' = [event |-> event, before |-> song, ret |-> ret]
    /\ UNCHANGED <<on_back, on_play, managerVars>>

AllTracksPlayer(config) ==
    /\ song' = IF song.some
               THEN [song EXCEPT !.tracks =
                        [i \in 1..Len(song.tracks) |-> [song.tracks[i] EXCEPT !.player = config]]]
               ELSE song
    /\ Handled(Event("AllTracksPlayer", 0, config, FALSE), "None")

TrackPlayerAll(track, config) ==
    /\ song' = IF song.some
               THEN [song EXCEPT !.tracks =
                        [i \in 1..Len(song.tracks) |-> [song.tracks[i] EXCEPT !.player = config]]]
               ELSE song
    /\ Handled(Event("TrackPlayer", track, config, FALSE), "None")

TrackPlayer(track, config) ==
    /\ song' = IF song.some
               THEN [song EXCEPT !.tracks[track + 1].player = config]
               ELSE song
    /\ Handled(Event("TrackPlayer", track, config, FALSE), "None")

TrackVisibility(track, visible) ==
    /\ song' = IF song.some
               THEN [song EXCEPT !.tracks[track + 1].visible = visible]
               ELSE song
    /\ Handled(Event("TrackVisibility", track, "Mute", visible), "None")

Back ==
    /\ song' = song
    /\ Handled(Event("Back", 0, "Mute", FALSE), IF on_back THEN "on_back()" ELSE "None")

Play ==
    /\ song' = song
    /\ Handled(Event("Play", 0, "Mute", FALSE), IF on_play THEN "on_play()" ELSE "None")

OnAllTracksPlayer == \E config \in PlayerConfig : AllTracksPlayer(config)
OnTrackPlayer == \E track \in TrackIds, config \in PlayerConfig : TrackPlayer(track, config)
OnTrackVisibility == \E track \in TrackIds, visible \in BOOLEAN : TrackVisibility(track, visible)

InitTracks ==
    /\ new
    /\ ports = [p \in Ports |-> "absent"]
    /\ sf2 = "unresolved"
    /\ song \in {NoSongLoaded} \cup Songs
    /\ on_back \in BOOLEAN
    /\ on_play \in BOOLEAN
    /\ trackCall = NoEvent

NextTracks == OnAllTracksPlayer \/ OnTrackPlayer \/ OnTrackVisibility \/ Back \/ Play

SpecTracks == InitTracks /\ [][NextTracks]_vars

\* ---- properties ---------------------------------------------------------
ProviderPresent(desc) ==
    CASE desc.kind = "Synth" -> synth_backend
      [] desc.kind = "MidiOut" -> midi_backend
      [] desc.kind = "DummyOutput" -> TRUE

CallsOf(name) == {i \in 1..Len(lastCall.calls) : lastCall.calls[i].call = name}
RouteUnchanged == output_connection = lastCall.before

\* C1: in a connect whose descriptor differs from the active one and whose
\* owning provider is present, every attempt to open a new connection is
\* preceded, within the same call, by stop_all on the outgoing connection.
C1_StopAllBeforeOpen ==
    (lastCall.op = "connect" /\ ProviderPresent(lastCall.desc)) =>
        \A i \in CallsOf("new_output_connection") :
            \E j \in 1..(i - 1) :
                /\ lastCall.calls[j].call = "stop_all"
                /\ lastCall.calls[j].sink = lastCall.before.sink.id

\* C2: whenever a connect replaces the active connection, the outgoing
\* connection has received stop_all after the last midi_event forwarded to it
\* and before it is dropped. Stated for the connections that can sound (the
\* synth and device connections; DummyOutput discards every event).
C2_NoSinkReleasedSounding ==
    (lastCall.op = "connect" /\ lastCall.before.sink.kind # "DummyOutput") =>
        \A i \in CallsOf("drop") : ~lastCall.calls[i].dirty

\* C3: a connect whose descriptor belongs to an absent provider leaves the
\* (descriptor, connection) pair as it was.
C3_AbsentProviderKeepsRoute ==
    (lastCall.op = "connect" /\ ~ProviderPresent(lastCall.desc)) => RouteUnchanged

\* C4: a connect with the descriptor that is already active keeps the very
\* same connection object, opens nothing and stops nothing; hence repeating a
\* connect that installed d changes nothing.
C4_ConnectSameIsNoOp ==
    (lastCall.op = "connect" /\ lastCall.desc = lastCall.before.desc) =>
        /\ RouteUnchanged
        /\ lastCall.calls = <<>>
        /\ output_connection.sink.id \in live

C4_Witness ==
    /\ lastCall.op = "connect"
    /\ lastCall.desc = lastCall.before.desc
    /\ lastCall.desc.kind = "MidiOut"

\* C5: outputs() is never empty and its last element is DummyOutput, in every
\* state and for every result actually returned.
C5_DummyAlwaysLast ==
    /\ Len(outputs) >= 1
    /\ outputs[Len(outputs)] = DummyOutput
    /\ lastCall.op = "outputs" =>
           /\ Len(lastCall.result) >= 1
           /\ lastCall.result[Len(lastCall.result)] = DummyOutput

C5_Witness ==
    /\ lastCall.op = "outputs"
    /\ Len(lastCall.result) = 2 + Len(PortList)
    /\ lastCall.before.desc.kind = "MidiOut"

\* C6: exactly one connection object is alive, it is the active one, and every
\* other connection ever created has been dropped.
C6_ExactlyOneLiveSink ==
    /\ live = {output_connection.sink.id}
    /\ output_connection.sink.id \in 0..(nextId - 1)
    /\ output_connection.desc \in OutputDescriptor

C6_Witness ==
    /\ nextId >= 3
    /\ lastCall.op = "connect"
    /\ lastCall.desc # output_connection.desc
    /\ lastCall.before.sink.id = nextId - 1

\* C7: a connect to a device port whose open yields no connection (busy or
\* vanished port) leaves the pair as it was and returns nothing but unit.
C7_FailedMidiOpenKeepsRoute ==
    (/\ lastCall.op = "connect"
     /\ lastCall.desc.kind = "MidiOut"
     /\ \E i \in CallsOf("new_output_connection") : ~lastCall.calls[i].ok) =>
        /\ RouteUnchanged
        /\ lastCall.ret = "unit"

C7_Witness ==
    /\ lastCall.op = "connect"
    /\ lastCall.desc.kind = "MidiOut"
    /\ \E i \in CallsOf("new_output_connection") : ~lastCall.calls[i].ok
    /\ lastCall.before.desc.kind \in {"Synth", "MidiOut"}

\* C8: connect(Synth(None)) while the default sound font is unresolvable or
\* missing on disk leaves the pair as it was.
C8_MissingDefaultFontKeepsRoute ==
    (/\ lastCall.op = "connect"
     /\ lastCall.desc = Synth(NoFont)
     /\ lastCall.sf2 \in {"unresolved", "missing"}) => RouteUnchanged

C8_Witness ==
    /\ lastCall.op = "connect"
    /\ lastCall.desc = Synth(NoFont)
    /\ lastCall.sf2 = "missing"
    /\ synth_backend
    /\ lastCall.before.desc.kind = "MidiOut"

\* C9: midi_event and stop_all are callable in every state, return unit and
\* leave the (descriptor, connection) pair as it was.
C9_HotPathNeverFails ==
    /\ ENABLED MidiEvent
    /\ ENABLED stop_all
    /\ lastCall.op \in {"midi_event", "stop_all"} =>
           /\ lastCall.ret = "unit"
           /\ RouteUnchanged
           /\ Len(lastCall.calls) = 1
           /\ lastCall.calls[1].ok

C9_Witness ==
    /\ lastCall.op = "midi_event"
    /\ nextId = 1
    /\ output_connection.sink.kind = "DummyOutput"

\* C10: with both providers absent, outputs() is exactly [DummyOutput], the
\* route stays (DummyOutput, dummy connection), connect(DummyOutput) changes
\* nothing and no midi_event reaches a backend connection.
C10_AllAbsentStaysDummy ==
    (~synth_backend /\ ~midi_backend) =>
        /\ outputs = <<DummyOutput>>
        /\ output_connection.desc = DummyOutput
        /\ output_connection.sink.kind = "DummyOutput"
        /\ (lastCall.op = "connect" /\ lastCall.desc = DummyOutput) => RouteUnchanged
        /\ lastCall.op = "midi_event" => lastCall.before.sink.kind = "DummyOutput"

\* the connection a provider opens for a descriptor
SinkFor(desc) ==
    CASE desc.kind = "Synth" ->
             [kind |-> "Synth", arg |-> IF desc.arg = NoFont THEN "default" ELSE desc.arg]
      [] desc.kind = "MidiOut" -> [kind |-> "MidiOut", arg |-> desc.arg]
      [] desc.kind = "DummyOutput" -> [kind |-> "DummyOutput", arg |-> "-"]

\* C11: descriptor and connection are replaced together: the active connection
\* is always the one that was opened for the active descriptor.
C11_PairReplacedTogether ==
    /\ output_connection.sink.kind = SinkFor(output_connection.desc).kind
    /\ output_connection.sink.arg = SinkFor(output_connection.desc).arg
    /\ (lastCall.op = "connect" /\ output_connection.sink # lastCall.before.sink) =>
           output_connection.desc = lastCall.desc

C11_Witness ==
    /\ lastCall.op = "connect"
    /\ lastCall.before.desc.kind = "MidiOut"
    /\ output_connection.desc = Synth(NoFont)
    /\ output_connection.sink.id = nextId - 1

\* C12: a midi_event or stop_all is forwarded exactly once, to the connection
\* that is active at the call, and never to a connection already dropped.
C12_DeliveredToActiveOnly ==
    /\ lastCall.op \in {"midi_event", "stop_all"} =>
           /\ Len(lastCall.calls) = 1
           /\ lastCall.calls[1].call = lastCall.op
           /\ lastCall.calls[1].sink = output_connection.sink.id
    /\ \A i \in CallsOf("midi_event") \cup CallsOf("stop_all") :
           /\ lastCall.calls[i].sink = lastCall.before.sink.id
           /\ lastCall.calls[i].sink \in live

C12_Witness ==
    /\ lastCall.op = "stop_all"
    /\ output_connection.sink.id = 2
    /\ output_connection.sink.kind = "Synth"
    /\ lastCall.calls[1].sink = 2

\* C13: the route starts as DummyOutput and only a connect changes it; after
\* connect(d) the active descriptor is d or the one active before the call.
C13_RouteChangesOnlyByConnect ==
    /\ output_connection.desc = DummyOutput
    /\ [][output_connection' # output_connection =>
              /\ lastCall'.op = "connect"
              /\ lastCall'.before = output_connection
              /\ output_connection'.desc = lastCall'.desc]_vars
    /\ [](lastCall.op = "connect" =>
              output_connection.desc \in {lastCall.desc, lastCall.before.desc})
    /\ [](lastCall.op \in {"outputs", "midi_event", "stop_all"} => RouteUnchanged)

C13_Witness ==
    /\ lastCall.op = "connect"
    /\ lastCall.desc.kind = "Synth"
    /\ lastCall.before.desc.kind = "MidiOut"
    /\ output_connection.desc = lastCall.before.desc
    /\ lastCall.sf2 = "unresolved"

\* C14: connect(DummyOutput) always ends with (DummyOutput, dummy connection)
\* and is possible in every state (within the model's bound on connections).
C14_DummyFallbackNeverFails ==
    /\ (lastCall.op = "connect" /\ lastCall.desc = DummyOutput) =>
           /\ output_connection.desc = DummyOutput
           /\ output_connection.sink.kind = "DummyOutput"
           /\ output_connection.sink.id \in live
    /\ (nextId < MaxSinks \/ output_connection.desc = DummyOutput) =>
           ENABLED (/\ connect(DummyOutput)
                    /\ output_connection'.desc = DummyOutput
                    /\ output_connection'.sink.kind = "DummyOutput")

C14_Witness ==
    /\ lastCall.op = "connect"
    /\ lastCall.desc = DummyOutput
    /\ lastCall.before.desc.kind = "Synth"
    /\ ~midi_backend
    /\ output_connection.desc = DummyOutput

\* C15: construction always yields the DummyOutput route, whichever backends
\* initialised, and no operation ever changes which backends are present.
C15_ProvidersFixedAtConstruction ==
    /\ lastCall.op = "new"
    /\ output_connection.desc = DummyOutput
    /\ output_connection.sink.kind = "DummyOutput"
    /\ live = {output_connection.sink.id}
    /\ [][synth_backend' = synth_backend /\ midi_backend' = midi_backend]_vars

C15_Witness ==
    /\ ~synth_backend
    /\ midi_backend
    /\ lastCall.op = "outputs"
    /\ lastCall.before.desc.kind = "MidiOut"
    /\ nextId >= 3

\* what outputs() must return in the current state: the synth entry if that
\* backend is present, then the listed ports in device order if the midi
\* backend is present, then DummyOutput
IsCurrentListing(res) ==
    LET s == IF synth_backend THEN 1 ELSE 0
        listed == {i \in 1..Len(PortList) : ports[PortList[i]] # "absent"}
        m == IF midi_backend THEN Cardinality(listed) ELSE 0
    IN  /\ Len(res) = s + m + 1
        /\ res[Len(res)] = DummyOutput
        /\ s = 1 => res[1] = Synth(NoFont)
        /\ \A k \in 1..m :
               \E i \in listed :
                   /\ res[s + k] = MidiOut(PortList[i])
                   /\ Cardinality({j \in listed : j <= i}) = k

\* C16: every outputs() call returns the present providers' current lists,
\* synth first, then midi, then DummyOutput, computed from the state at the
\* call (nothing cached), and changes neither the route nor the backends.
C16_OutputsIsCurrentListing ==
    [][(lastCall'.op = "outputs" /\ ports' = ports /\ sf2' = sf2) =>
           /\ IsCurrentListing(lastCall'.result)
           /\ output_connection' = output_connection
           /\ synth_backend' = synth_backend
           /\ midi_backend' = midi_backend
           /\ live' = live]_vars

C16_Witness ==
    /\ lastCall.op = "outputs"
    /\ synth_backend /\ midi_backend
    /\ lastCall.result = <<Synth(NoFont), MidiOut("p2"), DummyOutput>>
    /\ ports["p1"] = "absent" /\ ports["p2"] # "absent"

\* C17: a connect is skipped as redundant only for a descriptor equal to the
\* active one in variant and payload; a descriptor of the same variant with
\* another payload enters the arm of its variant (open attempted, or default
\* font looked up), and a successful open installs a new connection for it.
C17_SkipOnlyOnFullEquality ==
    /\ (/\ lastCall.op = "connect"
        /\ lastCall.desc.kind = lastCall.before.desc.kind
        /\ lastCall.desc # lastCall.before.desc) =>
           /\ lastCall.calls # <<>>
           /\ (lastCall.desc.kind = "MidiOut" \/ lastCall.desc.arg # NoFont) =>
                  CallsOf("new_output_connection") # {}
           /\ \A i \in CallsOf("new_output_connection") :
                  lastCall.calls[i].ok =>
                      /\ output_connection.desc = lastCall.desc
                      /\ output_connection.sink.id # lastCall.before.sink.id
                      /\ output_connection.sink.arg = SinkFor(lastCall.desc).arg
    /\ (/\ lastCall.op = "connect"
        /\ ProviderPresent(lastCall.desc)
        /\ lastCall.calls = <<>>) => lastCall.desc = lastCall.before.desc

C17_Witness ==
    /\ lastCall.op = "connect"
    /\ lastCall.before.desc = MidiOut("p1")
    /\ lastCall.desc = MidiOut("p2")
    /\ output_connection.desc = MidiOut("p2")
    /\ output_connection.sink.id # lastCall.before.sink.id

\* C18: connect(Synth(Some(path))) with the synth backend present and another
\* descriptor active always installs (Synth(Some(path)), new connection); the
\* font file is not checked, whatever the state of the default font.
C18_ExplicitFontAlwaysInstalls ==
    (/\ lastCall.op = "connect"
     /\ lastCall.desc.kind = "Synth"
     /\ lastCall.desc.arg # NoFont
     /\ synth_backend
     /\ lastCall.desc # lastCall.before.desc) =>
        /\ output_connection.desc = lastCall.desc
        /\ output_connection.sink.kind = "Synth"
        /\ output_connection.sink.arg = lastCall.desc.arg
        /\ output_connection.sink.id # lastCall.before.sink.id
        /\ CallsOf("exists") = {}
        /\ CallsOf("default_sf2") = {}

C18_Witness ==
    /\ lastCall.op = "connect"
    /\ lastCall.desc = Synth("f1")
    /\ lastCall.sf2 = "missing"
    /\ lastCall.before.desc = Synth(NoFont)
    /\ output_connection.desc = Synth("f1")
\* C19: in TracksPage::update with a song loaded, AllTracksPlayer(c) sets every
\* track's player to c and no visibility, TrackPlayer(i, c) changes only track
\* i's player, TrackVisibility(i, v) changes only track i's visible flag, Back
\* and Play change no track; with no song loaded no event changes anything.
C19_UpdateFrame ==
    LET e == trackCall.event
        b == trackCall.before
        n == Len(b.tracks)
    IN  e.type # "-" =>
        /\ song.some = b.some
        /\ Len(song.tracks) = n
        /\ ~b.some => song = b
        /\ e.type \in {"Back", "Play"} => song = b
        /\ e.type = "AllTracksPlayer" =>
               \A i \in 1..n : /\ song.tracks[i].player = e.config
                               /\ song.tracks[i].visible = b.tracks[i].visible
        /\ (e.type = "TrackPlayer" /\ b.some) =>
               /\ song.tracks[e.track + 1].player = e.config
               /\ song.tracks[e.track + 1].visible = b.tracks[e.track + 1].visible
               /\ \A i \in 1..n : i # e.track + 1 => song.tracks[i] = b.tracks[i]
        /\ (e.type = "TrackVisibility" /\ b.some) =>
               /\ song.tracks[e.track + 1].visible = e.visible
               /\ song.tracks[e.track + 1].player = b.tracks[e.track + 1].player
               /\ \A i \in 1..n : i # e.track + 1 => song.tracks[i] = b.tracks[i]

C19_Witness ==
    /\ trackCall.event.type = "TrackPlayer"
    /\ trackCall.event.track = 1
    /\ song.some
    /\ Len(song.tracks) = 2
    /\ song.tracks[2].player = "Human"
    /\ trackCall.before.tracks[2].player = "Mute"
    /\ song.tracks[1].player = "Auto"

TypeOK ==
    /\ synth_backend \in BOOLEAN /\ midi_backend \in BOOLEAN
    /\ output_connection.desc \in OutputDescriptor
    /\ nextId \in 1..(MaxSinks + 1)
    /\ dirty \in BOOLEAN
    /\ song \in {NoSongLoaded} \cup Songs
    /\ on_back \in BOOLEAN /\ on_play \in BOOLEAN
====
